---- MODULE Spec2Model ----
(***************************************************************************)
(* Model of the Ponder workspace browser (ethersh/ponder):                 *)
(*   src/src/App.tsx          App: root loading, file selection            *)
(*   src/unnamed/part_000     FileTree: filter, auto-expansion, rows       *)
(*   src/unnamed/part_001     lib/tauri: listTree, readTextFile, store     *)
(* Strings are sequences of one-character strings, so that toLowerCase and *)
(* includes are computed and not assumed.  A path is the sequence of the   *)
(* names from the root; the root's path is the empty string.               *)
(***************************************************************************)
EXTENDS Integers, Sequences, FiniteSets, TLC

VARIABLES
    workspacePath,     \* App.tsx:15
    tree,              \* App.tsx:16
    treeLoading,       \* App.tsx:17
    treeError,         \* App.tsx:18
    selectedFilePath,  \* App.tsx:20
    fileContent,       \* App.tsx:21
    fileLoading,       \* App.tsx:22
    fileError,         \* App.tsx:23
    searchFilter,      \* App.tsx:25
    expandedPaths,     \* FileTree: part_000:161
    localSearchFilter, \* FileTree: part_000:162
    startup,           \* position of loadLastWorkspace (App.tsx:27-39)
    picker,            \* position of handleConnectFolder (App.tsx:62-72)
    listCalls,         \* in-flight handleLoadTree calls (App.tsx:41-60)
    readCalls,         \* in-flight handleFileSelect calls (App.tsx:74-94)
    loadSeq,           \* number of handleLoadTree calls made so far
    readSeq,           \* number of handleFileSelect calls made so far
    last               \* history: the handler that ran last and its argument

vars == <<workspacePath, tree, treeLoading, treeError, selectedFilePath,
          fileContent, fileLoading, fileError, searchFilter, expandedPaths,
          localSearchFilter, startup, picker, listCalls, readCalls, loadSeq,
          readSeq, last>>

----------------------------------------------------------------------------
(* Bounds.  MaxCalls bounds the handleLoadTree and handleFileSelect calls of a
   run, MaxDepth the directory levels below the root. *)

MaxFilterLen == 1
MaxDepth == 2
MaxCalls == 4

\* Longest name of a directory entry handed to the file viewer.
MaxNameLen == 2

----------------------------------------------------------------------------
(* Strings *)

Chars == {"a", "A", "b"}

Names == {<<"A">>, <<"b">>, <<"a", "b">>}

EmptyString == <<>>

RECURSIVE StringsUpTo(_)
StringsUpTo(n) ==
    IF n = 0 THEN {EmptyString}
    ELSE LET shorter == StringsUpTo(n - 1)
         IN  shorter \cup {Append(s, c) : s \in shorter, c \in Chars}

Filters == StringsUpTo(MaxFilterLen)

lowerChar(c) ==
    CASE c = "A" -> "a"
      [] c = "B" -> "b"
      [] c = "P" -> "p"
      [] OTHER -> c

toLowerCase(s) == [i \in 1..Len(s) |-> lowerChar(s[i])]

includes(s, f) ==
    \E i \in 0..(Len(s) - Len(f)) : SubSeq(s, i + 1, i + Len(f)) = f

----------------------------------------------------------------------------
(* TreeNode (part_001:5-12).  A file has no children field. *)

NullPath == << <<"null">> >>

NoTree == [name |-> <<"null">>, path |-> NullPath, node_type |-> "null"]

FileNode(prefix, n) ==
    [name |-> n, path |-> Append(prefix, n), node_type |-> "file"]

DirNode(prefix, n, kids) ==
    [name |-> n, path |-> Append(prefix, n), node_type |-> "dir", children |-> kids]

HasChildren(node) == "children" \in DOMAIN node

\* Sequences of at most two nodes with different names.
KidSeqs(S) ==
    {<<>>} \cup {<<x>> : x \in S}
           \cup {p \in S \X S : p[1].name # p[2].name}

\* Below the root's children a directory holds at most one entry.
RECURSIVE NodesAt(_, _)
NodesAt(prefix, d) ==
    {FileNode(prefix, n) : n \in Names}
    \cup (IF d = 0 THEN {}
          ELSE UNION {{DirNode(prefix, n, <<>>)}
                      \cup {DirNode(prefix, n, <<k>>) : k \in NodesAt(Append(prefix, n), d - 1)}
                      : n \in Names})

\* The root is a directory with a name of its own and the empty path.
RootNode(kids) ==
    [name |-> <<"A">>, path |-> EmptyString, node_type |-> "dir", children |-> kids]

TreeSet == {RootNode(kids) : kids \in KidSeqs(NodesAt(<<>>, MaxDepth))}

RECURSIVE Descendants(_)
Descendants(node) ==
    IF HasChildren(node)
    THEN UNION {{node.children[i]} \cup Descendants(node.children[i])
                : i \in 1..Len(node.children)}
    ELSE {}

----------------------------------------------------------------------------
(* Filter engine (part_000:25-70) *)

RECURSIVE nodeMatchesFilter(_, _)
nodeMatchesFilter(node, filter) ==
    LET lowerFilter == toLowerCase(filter)
    IN  IF includes(toLowerCase(node.name), lowerFilter) THEN TRUE
        ELSE IF HasChildren(node)
             THEN \E i \in 1..Len(node.children) :
                      nodeMatchesFilter(node.children[i], filter)
             ELSE FALSE

\* getPathsToExpand without the recursion of part_000:44-45.
getPathsToExpandShallow(node, filter, parentPath) ==
    LET currentPath == IF node.path # EmptyString THEN node.path ELSE parentPath
    IN  IF HasChildren(node)
        THEN UNION {IF nodeMatchesFilter(node.children[i], filter)
                    THEN {currentPath}
                    ELSE {}
                    : i \in 1..Len(node.children)}
        ELSE {}

\* getPathsToExpand adding the matching child's path where part_000:43 adds
\* the path of the directory that holds it.
RECURSIVE getPathsToExpandOfChild(_, _, _)
getPathsToExpandOfChild(node, filter, parentPath) ==
    IF HasChildren(node)
    THEN UNION {IF nodeMatchesFilter(node.children[i], filter)
                THEN {IF node.children[i].node_type = "dir"
                      THEN node.children[i].path ELSE node.path}
                     \cup getPathsToExpandOfChild(node.children[i], filter,
                                                  node.children[i].path)
                ELSE {}
                : i \in 1..Len(node.children)}
    ELSE {}

RECURSIVE getPathsToExpand(_, _, _)
getPathsToExpand(node, filter, parentPath) ==
    LET currentPath == IF node.path # EmptyString THEN node.path ELSE parentPath
    IN  IF HasChildren(node)
        THEN UNION {IF nodeMatchesFilter(node.children[i], filter)
                    THEN {currentPath}
                         \cup getPathsToExpand(node.children[i], filter,
                                               node.children[i].path)
                    ELSE {}
                    : i \in 1..Len(node.children)}
        ELSE {}

\* visibleChildren keeping a child for its own name alone, without the
\* descent of nodeMatchesFilter (part_000:30-32).
visibleChildrenByOwnName(node, filter) ==
    LET keep(child) == includes(toLowerCase(child.name), toLowerCase(filter))
    IN  IF ~HasChildren(node) THEN <<>>
        ELSE IF filter = EmptyString THEN node.children
        ELSE SelectSeq(node.children, keep)

visibleChildren(node, filter) ==
    LET keep(child) == nodeMatchesFilter(child, filter)
    IN  IF ~HasChildren(node) THEN <<>>
        ELSE IF filter = EmptyString THEN node.children
        ELSE SelectSeq(node.children, keep)

\* TreeNodeItem rendering the children of every directory, without the
\* isExpanded test of part_000:132.
RECURSIVE TreeNodeItemAlwaysOpen(_, _, _, _)
TreeNodeItemAlwaysOpen(node, expanded, filter, depth) ==
    LET isDir == node.node_type = "dir"
        isExpanded == node.path \in expanded
        kids == visibleChildren(node, filter)
        RECURSIVE below(_)
        below(i) == IF i > Len(kids) THEN <<>>
                    ELSE TreeNodeItemAlwaysOpen(kids[i], expanded, filter, depth + 1)
                         \o below(i + 1)
        row == [path |-> node.path, node_type |-> node.node_type, depth |-> depth,
                expanded |-> isDir /\ isExpanded]
    IN  IF depth = 0 /\ isDir THEN below(1)
        ELSE <<row>> \o (IF isDir /\ Len(kids) > 0 THEN below(1) ELSE <<>>)

\* The rows TreeNodeItem renders for node, in document order.
RECURSIVE TreeNodeItem(_, _, _, _)
TreeNodeItem(node, expanded, filter, depth) ==
    LET isDir == node.node_type = "dir"
        isExpanded == node.path \in expanded
        kids == visibleChildren(node, filter)
        RECURSIVE below(_)
        below(i) == IF i > Len(kids) THEN <<>>
                    ELSE TreeNodeItem(kids[i], expanded, filter, depth + 1) \o below(i + 1)
        row == [path |-> node.path, node_type |-> node.node_type, depth |-> depth,
                expanded |-> isDir /\ isExpanded]
    IN  IF depth = 0 /\ isDir THEN below(1)
        ELSE <<row>> \o (IF isDir /\ isExpanded /\ Len(kids) > 0 THEN below(1) ELSE <<>>)

Range(s) == {s[i] : i \in 1..Len(s)}

----------------------------------------------------------------------------
(* Expansion state (part_000:164-185) *)

\* toggleExpanded without the delete of part_000:178-179.
toggleExpandedAddOnly(prev, path) == prev \cup {path}

\* The updater of toggleExpanded (part_000:176-184).
toggleExpanded(prev, path) ==
    IF path \in prev THEN prev \ {path} ELSE prev \cup {path}

\* The updater of the auto-expand effect starting from an empty set where
\* part_000:168 starts from a copy of prev.
addAllToEmpty(next, paths) == paths

\* The updater of the auto-expand effect (part_000:167-171): a copy of prev
\* to which the paths are added one by one.
RECURSIVE addAll(_, _)
addAll(next, paths) ==
    IF paths = {} THEN next
    ELSE LET p == CHOOSE q \in paths : TRUE
         IN  addAll(next \cup {p}, paths \ {p})

\* The auto-expand effect without the localSearchFilter test of part_000:165.
autoExpandUnguarded(prev, filter, t) ==
    IF t # NoTree
    THEN addAll(prev, getPathsToExpand(t, filter, EmptyString))
    ELSE prev

\* The auto-expand effect (part_000:164-173), run when localSearchFilter or
\* tree has changed: the expansion set it leaves.
autoExpand(prev, filter, t) ==
    IF filter # EmptyString /\ t # NoTree
    THEN addAll(prev, getPathsToExpand(t, filter, EmptyString))
    ELSE prev

----------------------------------------------------------------------------
(* The collaborators behind lib/tauri (part_001:57-71) *)

Roots == {"A", "B"}

\* What the user types into the search box.
SearchInputs == {EmptyString, <<"a">>, <<"B">>}

Null == "null"

\* What the lister returns for each root.
listTree(root) ==
    IF root = "A"
    THEN RootNode(<<DirNode(<<>>, <<"a", "b">>,
                            <<FileNode(<< <<"a", "b">> >>, <<"A">>)>>),
                    FileNode(<<>>, <<"b">>)>>)
    ELSE RootNode(<<DirNode(<<>>, <<"a", "b">>,
                            <<FileNode(<< <<"a", "b">> >>, <<"b">>)>>)>>)

\* The text the reader returns for a file: it is the text of that file of that root.
readTextFile(root, relPath) == [root |-> root, path |-> relPath]

NoContent == [root |-> Null, path |-> NullPath]

ListCall(seq, path, phase) == [seq |-> seq, path |-> path, phase |-> phase]

ReadCall(seq, root, relPath) == [seq |-> seq, root |-> root, relPath |-> relPath]

Did(op, path) == [op |-> op, path |-> path]

----------------------------------------------------------------------------
(* App (App.tsx) and FileTree (part_000:152-263) *)

Init ==
    /\ workspacePath = Null
    /\ tree = NoTree
    /\ treeLoading = FALSE
    /\ treeError = Null
    /\ selectedFilePath = NullPath
    /\ fileContent = NoContent
    /\ fileLoading = FALSE
    /\ fileError = Null
    /\ searchFilter = EmptyString
    /\ expandedPaths = {}
    /\ localSearchFilter = EmptyString
    /\ startup = "loadWorkspacePath"
    /\ picker = "idle"
    /\ listCalls = {}
    /\ readCalls = {}
    /\ loadSeq = 0
    /\ readSeq = 0
    /\ last = Did("init", NullPath)

\* handleLoadTree without the setFileContent(null) of App.tsx:47.
handleLoadTreeKeepingContent(path) ==
    /\ loadSeq + readSeq < MaxCalls
    /\ treeLoading' = TRUE
    /\ treeError' = Null
    /\ tree' = NoTree
    /\ workspacePath' = path
    /\ selectedFilePath' = NullPath
    /\ fileContent' = fileContent
    /\ fileError' = Null
    /\ loadSeq' = loadSeq + 1
    /\ listCalls' = listCalls \cup {ListCall(loadSeq + 1, path, "listTree")}
    /\ last' = Did("handleLoadTree", NullPath)
    /\ UNCHANGED <<fileLoading, searchFilter, expandedPaths, localSearchFilter,
                   readCalls, readSeq>>

\* handleLoadTree up to its first await (App.tsx:41-51).
handleLoadTree(path) ==
    /\ loadSeq + readSeq < MaxCalls
    /\ treeLoading' = TRUE
    /\ treeError' = Null
    /\ tree' = NoTree
    /\ workspacePath' = path
    /\ selectedFilePath' = NullPath
    /\ fileContent' = NoContent
    /\ fileError' = Null
    /\ loadSeq' = loadSeq + 1
    /\ listCalls' = listCalls \cup {ListCall(loadSeq + 1, path, "listTree")}
    /\ last' = Did("handleLoadTree", NullPath)
    /\ UNCHANGED <<fileLoading, searchFilter, expandedPaths, localSearchFilter,
                   readCalls, readSeq>>

\* loadLastWorkspace (App.tsx:27-39): loadWorkspacePath resolves to a path.
LoadLastWorkspace(lastPath) ==
    /\ startup = "loadWorkspacePath"
    /\ startup' = "done"
    /\ handleLoadTree(lastPath)
    /\ UNCHANGED picker

\* loadLastWorkspace: nothing is stored, or the store fails (part_001:34-42).
LoadNoWorkspace ==
    /\ startup = "loadWorkspacePath"
    /\ startup' = "done"
    /\ last' = Did("loadLastWorkspace", NullPath)
    /\ UNCHANGED <<workspacePath, tree, treeLoading, treeError, selectedFilePath,
                   fileContent, fileLoading, fileError, searchFilter, expandedPaths,
                   localSearchFilter, picker, listCalls, readCalls, loadSeq,
                   readSeq>>

\* The connect button (App.tsx:109-115) opens the folder dialog (App.tsx:64).
handleConnectFolder ==
    /\ ~treeLoading
    /\ picker = "idle"
    /\ picker' = "selectFolder"
    /\ last' = Did("handleConnectFolder", NullPath)
    /\ UNCHANGED <<workspacePath, tree, treeLoading, treeError, selectedFilePath,
                   fileContent, fileLoading, fileError, searchFilter, expandedPaths,
                   localSearchFilter, startup, listCalls, readCalls, loadSeq,
                   readSeq>>

\* The dialog returns a folder (App.tsx:65-67).
FolderSelected(path) ==
    /\ picker = "selectFolder"
    /\ picker' = "idle"
    /\ handleLoadTree(path)
    /\ UNCHANGED startup

\* The dialog is cancelled (part_001:51-54).
FolderCancelled ==
    /\ picker = "selectFolder"
    /\ picker' = "idle"
    /\ last' = Did("selectFolderNull", NullPath)
    /\ UNCHANGED <<workspacePath, tree, treeLoading, treeError, selectedFilePath,
                   fileContent, fileLoading, fileError, searchFilter, expandedPaths,
                   localSearchFilter, startup, listCalls, readCalls, loadSeq,
                   readSeq>>

\* The dialog throws (App.tsx:68-71).
FolderPickerFailed ==
    /\ picker = "selectFolder"
    /\ picker' = "idle"
    /\ treeError' = "Failed to open folder picker"
    /\ last' = Did("selectFolderThrows", NullPath)
    /\ UNCHANGED <<workspacePath, tree, treeLoading, selectedFilePath,
                   fileContent, fileLoading, fileError, searchFilter, expandedPaths,
                   localSearchFilter, startup, listCalls, readCalls, loadSeq,
                   readSeq>>

\* listTree resolves (App.tsx:51-53); FileTree re-renders with the new tree
\* and its auto-expand effect runs (part_000:164-173).
ListTreeResolved(call) ==
    /\ call \in listCalls
    /\ call.phase = "listTree"
    /\ tree' = listTree(call.path)
    /\ expandedPaths' = autoExpand(expandedPaths, localSearchFilter, tree')
    /\ listCalls' = (listCalls \ {call})
                    \cup {ListCall(call.seq, call.path, "saveWorkspacePath")}
    /\ last' = Did("listTreeResolved", NullPath)
    /\ UNCHANGED <<workspacePath, treeLoading, treeError, selectedFilePath,
                   fileContent, fileLoading, fileError, searchFilter,
                   localSearchFilter, startup, picker, readCalls, loadSeq, readSeq>>

\* listTree rejects (App.tsx:54-59).
ListTreeRejected(call) ==
    /\ call \in listCalls
    /\ call.phase = "listTree"
    /\ treeError' = "list_tree failed"
    /\ treeLoading' = FALSE
    /\ listCalls' = listCalls \ {call}
    /\ last' = Did("listTreeRejected", NullPath)
    /\ UNCHANGED <<workspacePath, tree, selectedFilePath, fileContent, fileLoading,
                   fileError, searchFilter, expandedPaths, localSearchFilter,
                   startup, picker, readCalls, loadSeq, readSeq>>

\* saveWorkspacePath resolves (App.tsx:53, 57-59).
SaveResolved(call) ==
    /\ call \in listCalls
    /\ call.phase = "saveWorkspacePath"
    /\ treeLoading' = FALSE
    /\ listCalls' = listCalls \ {call}
    /\ last' = Did("saveResolved", NullPath)
    /\ UNCHANGED <<workspacePath, tree, treeError, selectedFilePath, fileContent,
                   fileLoading, fileError, searchFilter, expandedPaths,
                   localSearchFilter, startup, picker, readCalls, loadSeq,
                   readSeq>>

\* saveWorkspacePath rejects (App.tsx:53-59, part_001:28-32).
SaveRejected(call) ==
    /\ call \in listCalls
    /\ call.phase = "saveWorkspacePath"
    /\ treeError' = "store failed"
    /\ treeLoading' = FALSE
    /\ listCalls' = listCalls \ {call}
    /\ last' = Did("saveRejected", NullPath)
    /\ UNCHANGED <<workspacePath, tree, selectedFilePath, fileContent, fileLoading,
                   fileError, searchFilter, expandedPaths, localSearchFilter,
                   startup, picker, readCalls, loadSeq, readSeq>>

\* FileTree shows the search box and the rows (part_000:193-262); the folder
\* dialog is modal.
TreeShown ==
    /\ ~treeLoading
    /\ treeError = Null
    /\ tree # NoTree
    /\ picker = "idle"

\* The rows on screen (part_000:250-259).
VisibleRows == TreeNodeItem(tree, expandedPaths, localSearchFilter, 0)

\* handleClick on a directory row with an auto-expand effect that also runs
\* when expandedPaths changes, where part_000:173 names localSearchFilter and
\* tree alone.
ClickDirectoryReExpanding(row) ==
    /\ TreeShown
    /\ row \in Range(VisibleRows)
    /\ row.node_type = "dir"
    /\ expandedPaths' = autoExpand(toggleExpanded(expandedPaths, row.path),
                                   localSearchFilter, tree)
    /\ last' = Did("toggleExpanded", row.path)
    /\ UNCHANGED <<workspacePath, tree, treeLoading, treeError, selectedFilePath,
                   fileContent, fileLoading, fileError, searchFilter,
                   localSearchFilter, startup, picker, listCalls, readCalls,
                   loadSeq, readSeq>>

\* handleClick on a directory row (part_000:72-74, 175-185).
ClickDirectory(row) ==
    /\ TreeShown
    /\ row \in Range(VisibleRows)
    /\ row.node_type = "dir"
    /\ expandedPaths' = toggleExpanded(expandedPaths, row.path)
    /\ last' = Did("toggleExpanded", row.path)
    /\ UNCHANGED <<workspacePath, tree, treeLoading, treeError, selectedFilePath,
                   fileContent, fileLoading, fileError, searchFilter,
                   localSearchFilter, startup, picker, listCalls, readCalls,
                   loadSeq, readSeq>>

\* handleFileSelect up to its first await (App.tsx:74-84).
handleFileSelect(relPath) ==
    /\ workspacePath # Null
    /\ loadSeq + readSeq < MaxCalls
    /\ selectedFilePath' = relPath
    /\ fileLoading' = TRUE
    /\ fileError' = Null
    /\ fileContent' = NoContent
    /\ readSeq' = readSeq + 1
    /\ readCalls' = readCalls \cup {ReadCall(readSeq + 1, workspacePath, relPath)}
    /\ last' = Did("handleFileSelect", relPath)
    /\ UNCHANGED <<workspacePath, tree, treeLoading, treeError, searchFilter,
                   expandedPaths, localSearchFilter, startup, picker, listCalls,
                   loadSeq>>

\* handleClick without the isDir test of part_000:73: every row toggles.
ClickFileToggling(row) ==
    /\ TreeShown
    /\ row \in Range(VisibleRows)
    /\ row.node_type # "dir"
    /\ expandedPaths' = toggleExpanded(expandedPaths, row.path)
    /\ last' = Did("toggleExpanded", row.path)
    /\ UNCHANGED <<workspacePath, tree, treeLoading, treeError, selectedFilePath,
                   fileContent, fileLoading, fileError, searchFilter,
                   localSearchFilter, startup, picker, listCalls, readCalls,
                   loadSeq, readSeq>>

\* handleClick on a file row (part_000:75-77).
ClickFile(row) ==
    /\ TreeShown
    /\ row \in Range(VisibleRows)
    /\ row.node_type # "dir"
    /\ handleFileSelect(row.path)

\* readTextFile resolves (App.tsx:84-85, 89-91).
ReadResolved(call) ==
    /\ call \in readCalls
    /\ fileContent' = readTextFile(call.root, call.relPath)
    /\ fileLoading' = FALSE
    /\ readCalls' = readCalls \ {call}
    /\ last' = Did("readResolved", NullPath)
    /\ UNCHANGED <<workspacePath, tree, treeLoading, treeError, selectedFilePath,
                   fileError, searchFilter, expandedPaths, localSearchFilter,
                   startup, picker, listCalls, loadSeq, readSeq>>

\* readTextFile rejects, with the message put in the tree error where
\* App.tsx:88 calls setFileError.
ReadRejectedAsTreeError(call) ==
    /\ call \in readCalls
    /\ treeError' = "read_text_file failed"
    /\ fileLoading' = FALSE
    /\ readCalls' = readCalls \ {call}
    /\ last' = Did("readRejected", NullPath)
    /\ UNCHANGED <<workspacePath, tree, treeLoading, fileError, selectedFilePath,
                   fileContent, searchFilter, expandedPaths, localSearchFilter,
                   startup, picker, listCalls, loadSeq, readSeq>>

\* readTextFile rejects (App.tsx:86-91).
ReadRejected(call) ==
    /\ call \in readCalls
    /\ fileError' = "read_text_file failed"
    /\ fileLoading' = FALSE
    /\ readCalls' = readCalls \ {call}
    /\ last' = Did("readRejected", NullPath)
    /\ UNCHANGED <<workspacePath, tree, treeLoading, treeError, selectedFilePath,
                   fileContent, searchFilter, expandedPaths, localSearchFilter,
                   startup, picker, listCalls, loadSeq, readSeq>>

\* handleSearchChange (part_000:187-191) and the auto-expand effect it
\* triggers (part_000:164-173).
handleSearchChange(value) ==
    /\ TreeShown
    /\ value # localSearchFilter
    /\ localSearchFilter' = value
    /\ searchFilter' = value
    /\ expandedPaths' = autoExpand(expandedPaths, value, tree)
    /\ last' = Did("handleSearchChange", NullPath)
    /\ UNCHANGED <<workspacePath, tree, treeLoading, treeError, selectedFilePath,
                   fileContent, fileLoading, fileError, startup, picker,
                   listCalls, readCalls, loadSeq, readSeq>>

\* The clear button emptying the expansion set along with the filter text,
\* where part_000:241-244 sets the filter text alone.
ClearSearchCollapsing ==
    /\ TreeShown
    /\ localSearchFilter # EmptyString
    /\ localSearchFilter' = EmptyString
    /\ searchFilter' = EmptyString
    /\ expandedPaths' = {}
    /\ last' = Did("clearSearch", NullPath)
    /\ UNCHANGED <<workspacePath, tree, treeLoading, treeError, selectedFilePath,
                   fileContent, fileLoading, fileError, startup, picker,
                   listCalls, readCalls, loadSeq, readSeq>>

\* The clear button (part_000:237-248).
ClearSearch ==
    /\ TreeShown
    /\ localSearchFilter # EmptyString
    /\ localSearchFilter' = EmptyString
    /\ searchFilter' = EmptyString
    /\ expandedPaths' = autoExpand(expandedPaths, EmptyString, tree)
    /\ last' = Did("clearSearch", NullPath)
    /\ UNCHANGED <<workspacePath, tree, treeLoading, treeError, selectedFilePath,
                   fileContent, fileLoading, fileError, startup, picker,
                   listCalls, readCalls, loadSeq, readSeq>>

Next ==
    \/ \E path \in Roots : LoadLastWorkspace(path)
    \/ LoadNoWorkspace
    \/ handleConnectFolder
    \/ \E path \in Roots : FolderSelected(path)
    \/ FolderCancelled
    \/ FolderPickerFailed
    \/ \E call \in listCalls : ListTreeResolved(call)
    \/ \E call \in listCalls : ListTreeRejected(call)
    \/ \E call \in listCalls : SaveResolved(call)
    \/ \E call \in listCalls : SaveRejected(call)
    \/ \E row \in Range(VisibleRows) : ClickDirectory(row)
    \/ \E row \in Range(VisibleRows) : ClickFile(row)
    \/ \E call \in readCalls : ReadResolved(call)
    \/ \E call \in readCalls : ReadRejected(call)
    \/ \E value \in SearchInputs : handleSearchChange(value)
    \/ ClearSearch

Spec == Init /\ [][Next]_vars

----------------------------------------------------------------------------
(* The filter engine on its own: FileTree given any tree and any filter text. *)

InitFilter ==
    /\ workspacePath = "A"
    /\ tree \in TreeSet
    /\ treeLoading = FALSE
    /\ treeError = Null
    /\ selectedFilePath = NullPath
    /\ fileContent = NoContent
    /\ fileLoading = FALSE
    /\ fileError = Null
    /\ localSearchFilter \in Filters
    /\ searchFilter = localSearchFilter
    /\ expandedPaths = {}
    /\ startup = "done"
    /\ picker = "idle"
    /\ listCalls = {}
    /\ readCalls = {}
    /\ loadSeq = 1
    /\ readSeq = 0
    /\ last = Did("init", NullPath)

\* getPathsToExpand(tree, localSearchFilter) as FileTree calls it
\* (part_000:166): the expansion set is made the set it returns.
CallGetPathsToExpand ==
    /\ last.op = "init"
    /\ expandedPaths' = getPathsToExpand(tree, localSearchFilter, EmptyString)
    /\ last' = Did("getPathsToExpand", NullPath)
    /\ UNCHANGED <<workspacePath, tree, treeLoading, treeError, selectedFilePath,
                   fileContent, fileLoading, fileError, searchFilter,
                   localSearchFilter, startup, picker, listCalls, readCalls,
                   loadSeq, readSeq>>

\* The auto-expand effect of the first render (part_000:164-173).
RunAutoExpand ==
    /\ last.op = "init"
    /\ expandedPaths' = autoExpand(expandedPaths, localSearchFilter, tree)
    /\ last' = Did("autoExpand", NullPath)
    /\ UNCHANGED <<workspacePath, tree, treeLoading, treeError, selectedFilePath,
                   fileContent, fileLoading, fileError, searchFilter,
                   localSearchFilter, startup, picker, listCalls, readCalls,
                   loadSeq, readSeq>>

NextFilter ==
    \/ CallGetPathsToExpand
    \/ RunAutoExpand

SpecFilter == InitFilter /\ [][NextFilter]_vars

\* FileTree shown with any tree, one of the search inputs typed and nothing
\* expanded yet.
InitRows ==
    /\ workspacePath = "A"
    /\ tree \in TreeSet
    /\ treeLoading = FALSE
    /\ treeError = Null
    /\ selectedFilePath = NullPath
    /\ fileContent = NoContent
    /\ fileLoading = FALSE
    /\ fileError = Null
    /\ localSearchFilter \in SearchInputs
    /\ searchFilter = localSearchFilter
    /\ expandedPaths = {}
    /\ startup = "done"
    /\ picker = "idle"
    /\ listCalls = {}
    /\ readCalls = {}
    /\ loadSeq = 1
    /\ readSeq = 0
    /\ last = Did("init", NullPath)

\* A walk down the tree view: a click on a directory row that lies deeper
\* than the row clicked before it.
ClickDirectoryBelow(row) ==
    /\ last.op = "toggleExpanded" => Len(row.path) > Len(last.path)
    /\ ClickDirectory(row)

\* The tree view of any tree: the first render, then clicks on directory rows
\* shown, each deeper than the last.
NextRows ==
    \/ RunAutoExpand
    \/ \E row \in Range(VisibleRows) : ClickDirectoryBelow(row)

SpecRows == InitRows /\ [][NextRows]_vars

----------------------------------------------------------------------------
(* The file viewer (FileViewer.tsx): the language label of the selected path *)

\* Characters of the names shown in the viewer: an extension of the table
\* ("py"), an upper-case letter and the dot.
ViewerChars == {"p", "y", "P", "."}

RECURSIVE ViewerStrings(_)
ViewerStrings(n) ==
    IF n = 0 THEN {EmptyString}
    ELSE LET shorter == ViewerStrings(n - 1)
         IN  shorter \cup {Append(s, c) : s \in shorter, c \in ViewerChars}

\* Names of directory entries: not empty, and not made of dots only.
ViewerNames ==
    {n \in ViewerStrings(MaxNameLen) : \E i \in 1..Len(n) : n[i] # "."}

\* Relative paths of files: a file of the root, or a file in a directory.
ViewerPaths ==
    {<<n>> : n \in ViewerNames} \cup {<<d, n>> : d \in ViewerNames, n \in ViewerNames}

\* TreeNode.path as the string the viewer receives: the names joined by "/".
RECURSIVE pathString(_)
pathString(path) ==
    IF Len(path) = 0 THEN EmptyString
    ELSE IF Len(path) = 1 THEN path[1]
    ELSE path[1] \o <<"/">> \o pathString(Tail(path))

\* s.split(sep).pop(): what follows the last sep of s, or all of s when it
\* has none.
splitPop(s, sep) ==
    LET at == {i \in 1..Len(s) : s[i] = sep}
        lastAt == IF at = {} THEN 0 ELSE CHOOSE i \in at : \A j \in at : j <= i
    IN  SubSeq(s, lastAt + 1, Len(s))

\* languageMap of getLanguageFromPath (FileViewer.tsx:12-40).
languageMap ==
    (<<"j","s">> :> "javascript") @@ (<<"j","s","x">> :> "javascript") @@
    (<<"t","s">> :> "typescript") @@ (<<"t","s","x">> :> "typescript") @@
    (<<"m","j","s">> :> "javascript") @@ (<<"c","j","s">> :> "javascript") @@
    (<<"h","t","m","l">> :> "html") @@ (<<"h","t","m">> :> "html") @@
    (<<"c","s","s">> :> "css") @@ (<<"s","c","s","s">> :> "scss") @@
    (<<"l","e","s","s">> :> "less") @@ (<<"j","s","o","n">> :> "json") @@
    (<<"y","a","m","l">> :> "yaml") @@ (<<"y","m","l">> :> "yaml") @@
    (<<"t","o","m","l">> :> "toml") @@ (<<"x","m","l">> :> "xml") @@
    (<<"r","s">> :> "rust") @@ (<<"p","y">> :> "python") @@
    (<<"r","b">> :> "ruby") @@ (<<"g","o">> :> "go") @@
    (<<"s","h">> :> "shell") @@ (<<"b","a","s","h">> :> "shell") @@
    (<<"z","s","h">> :> "shell") @@ (<<"m","d">> :> "markdown") @@
    (<<"m","d","x">> :> "markdown") @@
    (<<"g","i","t","i","g","n","o","r","e">> :> "gitignore") @@
    (<<"e","n","v">> :> "dotenv")

\* getLanguageFromPath (FileViewer.tsx:10-42): the whole path is split on
\* ".", its last piece lower-cased and looked up.
getLanguageFromPath(path) ==
    LET extension == toLowerCase(splitPop(path, "."))
    IN  IF extension \in DOMAIN languageMap THEN languageMap[extension]
        ELSE "plaintext"

\* The tree that holds one file at the given relative path.
TreeWithFile(path) ==
    IF Len(path) = 1 THEN RootNode(<<FileNode(<<>>, path[1])>>)
    ELSE RootNode(<<DirNode(<<>>, path[1], <<FileNode(<<path[1]>>, path[2])>>)>>)

\* A file is selected and its content has been read.
InitViewer ==
    /\ selectedFilePath \in ViewerPaths
    /\ workspacePath = "A"
    /\ tree = TreeWithFile(selectedFilePath)
    /\ treeLoading = FALSE
    /\ treeError = Null
    /\ fileContent = readTextFile(workspacePath, selectedFilePath)
    /\ fileLoading = FALSE
    /\ fileError = Null
    /\ localSearchFilter = EmptyString
    /\ searchFilter = EmptyString
    /\ expandedPaths = {SubSeq(selectedFilePath, 1, Len(selectedFilePath) - 1)} \ {<<>>}
    /\ startup = "done"
    /\ picker = "idle"
    /\ listCalls = {}
    /\ readCalls = {}
    /\ loadSeq = 1
    /\ readSeq = 1
    /\ last = Did("init", NullPath)

\* FileViewer renders the content view (FileViewer.tsx:95-130): the label
\* shown is getLanguageFromPath(filePath).
FileViewer ==
    /\ last.op = "init"
    /\ ~fileLoading /\ fileError = Null /\ selectedFilePath # NullPath
    /\ last' = [op |-> "FileViewer", path |-> selectedFilePath,
                language |-> getLanguageFromPath(pathString(selectedFilePath))]
    /\ UNCHANGED <<workspacePath, tree, treeLoading, treeError, selectedFilePath,
                   fileContent, fileLoading, fileError, searchFilter,
                   expandedPaths, localSearchFilter, startup, picker,
                   listCalls, readCalls, loadSeq, readSeq>>

NextViewer == FileViewer

SpecViewer == InitViewer /\ [][NextViewer]_vars

----------------------------------------------------------------------------
(* Claims about App: root loading and file reading *)

ListingsResolved == \A call \in listCalls : call.phase # "listTree"

\* C1: last-root-wins.  Once the listings of all handleLoadTree calls have
\* resolved without an error, the tree held is the tree of the root of the
\* latest call (workspacePath), never the tree of a root loaded before it.
C1_LastRootWins ==
    (loadSeq >= 2 /\ ListingsResolved /\ treeError = Null)
        => tree = listTree(workspacePath)

\* C2: file-read supersession.  Once the reads of all selections have
\* resolved, the content displayed for the selected file is the content of
\* that file, never that of a file selected before it.
C2_ReadSupersession ==
    (readSeq >= 2 /\ readCalls = {} /\ selectedFilePath # NullPath
        /\ fileError = Null /\ fileContent # NoContent)
        => fileContent.path = selectedFilePath

\* The paths the auto-expansion of filter against t accounts for.
AutoExpanded(filter, t) ==
    IF filter # EmptyString THEN getPathsToExpand(t, filter, EmptyString) ELSE {}

\* C3: the expansion set is reset on every root load.  When the listing of a
\* handleLoadTree call has just put the new tree in place, the expansion set
\* holds nothing but what auto-expansion of the current filter adds for it.
C3_ExpansionResetOnLoad ==
    last.op = "listTreeResolved"
        => expandedPaths = AutoExpanded(localSearchFilter, tree)

\* C4: handleLoadTree clears the selection, the file content, the file error,
\* the tree error and the tree, and the listing request is then in flight.
C4_LoadRootClears ==
    last.op = "handleLoadTree"
        => /\ selectedFilePath = NullPath
           /\ fileContent = NoContent
           /\ fileError = Null
           /\ treeError = Null
           /\ tree = NoTree
           /\ ListCall(loadSeq, workspacePath, "listTree") \in listCalls

\* C4 witness: the second handleLoadTree has just run, after a file was
\* selected under the first root and its read had completed.
C4_Witness ==
    /\ last.op = "handleLoadTree"
    /\ loadSeq = 2
    /\ readSeq >= 1
    /\ readCalls = {}

----------------------------------------------------------------------------
(* Claims about the filter engine, checked under SpecFilter *)

\* The node's own name contains the filter text, case-insensitively.
NameContains(node, filter) == includes(toLowerCase(node.name), toLowerCase(filter))

\* The proper, non-empty prefixes of a path: the paths of the ancestors below
\* the root.
AncestorPaths(path) == {SubSeq(path, 1, k) : k \in 1..(Len(path) - 1)}

RowPaths == {row.path : row \in Range(VisibleRows)}

MatchingFiles ==
    {n \in Descendants(tree) : n.node_type = "file" /\ NameContains(n, localSearchFilter)}

\* C5: for a non-empty filter, with the expansion set exactly
\* getPathsToExpand(tree, filter), every file whose name contains the filter
\* is a visible row, and each of its ancestor directories below the root is
\* in the set and is a visible row itself.
C5_MatchesReachable ==
    (last.op = "getPathsToExpand" /\ localSearchFilter # EmptyString)
        => \A n \in MatchingFiles :
              /\ n.path \in RowPaths
              /\ AncestorPaths(n.path) \subseteq expandedPaths
              /\ AncestorPaths(n.path) \subseteq RowPaths

\* C5 witness: a matching file three levels down is shown while another
\* entry of the tree is filtered out.
C5_Witness ==
    /\ last.op = "getPathsToExpand"
    /\ localSearchFilter # EmptyString
    /\ \E n \in MatchingFiles : Len(n.path) = 3
    /\ \E n \in Descendants(tree) : n.path \notin RowPaths

DirsOf(t) == {n \in {t} \cup Descendants(t) : n.node_type = "dir"}

HasMatchingDescendant(dir, filter) ==
    \E n \in Descendants(dir) : NameContains(n, filter)

\* Every path of the set is the path of a directory with a proper descendant
\* whose own name contains the filter.
OnlyDirsWithMatchingDescendant ==
    \A p \in expandedPaths :
        \E d \in DirsOf(tree) :
            d.path = p /\ HasMatchingDescendant(d, localSearchFilter)

\* A directory whose own name matches and that has no matching descendant is
\* not in the set.
NameOnlyMatchesLeftOut ==
    \A d \in DirsOf(tree) :
        (NameContains(d, localSearchFilter)
            /\ ~HasMatchingDescendant(d, localSearchFilter))
            => d.path \notin expandedPaths

\* C6 as stated: getPathsToExpand is minimal, and the root's path is in it
\* whenever any node of the tree, the root included, has a matching name.
C6_MinimalRootOnAnyMatch ==
    (last.op = "getPathsToExpand" /\ localSearchFilter # EmptyString)
        => /\ OnlyDirsWithMatchingDescendant
           /\ NameOnlyMatchesLeftOut
           /\ (\E n \in {tree} \cup Descendants(tree) :
                   NameContains(n, localSearchFilter))
                  => tree.path \in expandedPaths

\* C6 amended: getPathsToExpand is minimal, and the root's path is in it
\* whenever a node other than the root has a matching name.
C6_Minimal ==
    (last.op = "getPathsToExpand" /\ localSearchFilter # EmptyString)
        => /\ OnlyDirsWithMatchingDescendant
           /\ NameOnlyMatchesLeftOut
           /\ (\E n \in Descendants(tree) : NameContains(n, localSearchFilter))
                  => tree.path \in expandedPaths

\* C6 witness: the root is in the set for a match below it, and a directory
\* below the root that matches by name alone is left out.
C6_Witness ==
    /\ last.op = "getPathsToExpand"
    /\ localSearchFilter # EmptyString
    /\ tree.path \in expandedPaths
    /\ \E d \in DirsOf(tree) :
          /\ d.path # EmptyString
          /\ Descendants(d) # {}
          /\ NameContains(d, localSearchFilter)
          /\ d.path \notin expandedPaths

\* C7 as stated: getPathsToExpand returns the empty set for the empty filter.
C7_EmptyForEmptyFilter ==
    (last.op = "getPathsToExpand" /\ localSearchFilter = EmptyString)
        => expandedPaths = {}

\* C7 amended: with the empty filter the auto-expand effect does not call
\* getPathsToExpand and adds no path to the expansion set.
C7_EmptyFilterExpandsNothing ==
    (last.op = "autoExpand" /\ localSearchFilter = EmptyString)
        => expandedPaths = {}

\* C7 witness: the effect has run with the empty filter on a tree in which
\* getPathsToExpand would find directories to expand.
C7_Witness ==
    /\ last.op = "autoExpand"
    /\ localSearchFilter = EmptyString
    /\ getPathsToExpand(tree, EmptyString, EmptyString) # {}

----------------------------------------------------------------------------
(* Claims about the expansion state, checked under Spec *)

\* C8: a toggle flips the membership of its path and of no other path, and
\* toggling the same path again gives back the set before the toggle.
C8_ToggleInverse ==
    [][last'.op = "toggleExpanded"
        => LET p == last'.path
           IN  /\ (p \in expandedPaths') <=> (p \notin expandedPaths)
               /\ expandedPaths' \ {p} = expandedPaths \ {p}
               /\ toggleExpanded(expandedPaths', p) = expandedPaths]_vars

\* C8 witness: a toggle has collapsed a directory while another path stays
\* expanded.
C8_Witness ==
    /\ last.op = "toggleExpanded"
    /\ last.path \notin expandedPaths
    /\ expandedPaths # {}

\* The steps on which the auto-expand effect merges paths.
AutoExpandStep ==
    /\ last'.op \in {"handleSearchChange", "listTreeResolved"}
    /\ localSearchFilter' # EmptyString

\* C9: auto-expansion is monotonic.  The expansion set after the merge is
\* the set before it united with getPathsToExpand(tree, filter).
C9_AutoExpandMonotonic ==
    [][AutoExpandStep
        => /\ expandedPaths' = expandedPaths
                \cup getPathsToExpand(tree', localSearchFilter', EmptyString)
           /\ expandedPaths \subseteq expandedPaths']_vars

\* C9 witness: a merge has added paths and has kept a path that the filter
\* does not ask for.
C9_Witness ==
    /\ last.op = "handleSearchChange"
    /\ localSearchFilter # EmptyString
    /\ getPathsToExpand(tree, localSearchFilter, EmptyString) # {}
    /\ \E p \in expandedPaths :
          p \notin getPathsToExpand(tree, localSearchFilter, EmptyString)

\* The paths the active filter wants expanded.
Wanted == AutoExpanded(localSearchFilter, tree)

\* C10: a path the filter wants expanded can be collapsed.  A toggle of such
\* a path takes it out of the expansion set, and it stays out over every
\* step that is not a change of the filter, a change of the tree or a toggle
\* of the same path.
C10_CollapseSticks ==
    [][/\ (last'.op = "toggleExpanded" /\ last'.path \in Wanted
              /\ last'.path \in expandedPaths)
          => last'.path \notin expandedPaths'
       /\ \A p \in Wanted :
            (/\ p \notin expandedPaths
             /\ last'.op \notin {"handleSearchChange", "clearSearch",
                                 "listTreeResolved", "handleLoadTree"}
             /\ ~(last'.op = "toggleExpanded" /\ last'.path = p))
            => p \notin expandedPaths']_vars

\* C10 witness: a path the filter wants expanded is collapsed, and a read
\* has completed since it was collapsed.
C10_Witness ==
    /\ last.op = "readResolved"
    /\ \E p \in Wanted : p \notin expandedPaths

----------------------------------------------------------------------------
(* Claims about the error channels and supersession, checked under Spec *)

\* C11: whenever the tree error is set, no tree is held.
C11_ErrorMeansNoTree == treeError # Null => tree = NoTree

\* C12: a failed read sets the file error and leaves the tree, the tree
\* error, the expansion set and the selection as they were; and neither the
\* selection of a file nor the completion of a read changes the tree error.
C12_FileErrorChannel ==
    [][/\ last'.op = "readRejected"
            => /\ fileError' # Null
               /\ UNCHANGED <<tree, treeError, expandedPaths, selectedFilePath>>
       /\ last'.op \in {"handleFileSelect", "readResolved", "readRejected"}
            => treeError' = treeError]_vars

\* C12 witness: a read has failed with a tree shown, a directory expanded and
\* a file selected.
C12_Witness ==
    /\ last.op = "readRejected"
    /\ fileError # Null
    /\ treeError = Null
    /\ tree # NoTree
    /\ expandedPaths # {}
    /\ selectedFilePath # NullPath

\* C13: a failure of saveWorkspacePath after a listing that succeeded sets
\* no tree error, and the listed tree is shown.
C13_SaveFailureSilent ==
    last.op = "saveRejected" => (treeError = Null /\ tree # NoTree)

\* A call that a later call of the same handler has superseded.
StaleListing(call) == call.seq < loadSeq /\ call.phase = "listTree"

StaleRead(call) == call.seq < readSeq

\* C14: the arrival of the result of a superseded listing or read changes
\* none of the tree, the tree error, the tree-loading flag, the file content,
\* the file error and the file-loading flag.
C14_SupersededArrivalInvisible ==
    [][(\/ \E call \in listCalls : StaleListing(call) /\ call \notin listCalls'
        \/ \E call \in readCalls : StaleRead(call) /\ call \notin readCalls')
        => UNCHANGED <<tree, treeError, treeLoading, fileContent, fileError,
                       fileLoading>>]_vars

\* C15: a click on a directory row toggles its path, changes neither the
\* selection nor the file content nor the file error and issues no read; a
\* click on a file row selects its path, clears the file error, issues a read
\* of that path under the loaded root and leaves the expansion set alone.
C15_ClickDispatch ==
    [][/\ last'.op = "toggleExpanded"
            => /\ \E row \in Range(VisibleRows) :
                     row.path = last'.path /\ row.node_type = "dir"
               /\ (last'.path \in expandedPaths') <=> (last'.path \notin expandedPaths)
               /\ UNCHANGED <<selectedFilePath, fileContent, fileError,
                              readCalls, readSeq>>
       /\ last'.op = "handleFileSelect"
            => /\ \E row \in Range(VisibleRows) :
                     row.path = last'.path /\ row.node_type = "file"
               /\ workspacePath # Null
               /\ selectedFilePath' = last'.path
               /\ fileError' = Null
               /\ readCalls' = readCalls
                     \cup {ReadCall(readSeq + 1, workspacePath, last'.path)}
               /\ readSeq' = readSeq + 1
               /\ expandedPaths' = expandedPaths]_vars

\* C15 witness: a file below an expanded directory has just been selected,
\* after an earlier selection.
C15_Witness ==
    /\ last.op = "handleFileSelect"
    /\ Len(last.path) = 2
    /\ readSeq = 2
    /\ expandedPaths # {}

\* C19: with no file selected there is no file content and no file error.
C19_NoSelectionNoContent ==
    selectedFilePath = NullPath => (fileContent = NoContent /\ fileError = Null)

\* C20: the tree-loading flag is on while the listing of the latest
\* handleLoadTree call is in flight, and the file-loading flag is on while
\* the read of the latest selection is in flight: the completion of a
\* superseded call does not turn them off.
C20_LoadingWhileLatestInFlight ==
    /\ (\E call \in listCalls : call.seq = loadSeq /\ call.phase = "listTree")
          => treeLoading
    /\ (\E call \in readCalls : call.seq = readSeq) => fileLoading

----------------------------------------------------------------------------
(* Claim about the language label, checked under SpecViewer *)

\* The file name of a relative path: its last name.
FileNameOf(path) == path[Len(path)]

\* The label the extension after the last "." of the file name stands for;
\* "plaintext" when the file name has no "." or the extension is unknown.
LabelOfFileName(name) ==
    IF \A i \in 1..Len(name) : name[i] # "." THEN "plaintext"
    ELSE LET ext == toLowerCase(splitPop(name, "."))
         IN  IF ext \in DOMAIN languageMap THEN languageMap[ext] ELSE "plaintext"

\* C16: the label shown is the one of the extension after the last "." of
\* the file name, and "plaintext" for every file name without a "." or with
\* an extension that is not in the table.
C16_LanguageFromExtension ==
    last.op = "FileViewer" => last.language = LabelOfFileName(FileNameOf(last.path))

----------------------------------------------------------------------------
(* Claims about the rows of the tree view, checked under SpecRows (C17) and
   SpecFilter (C18) *)

\* A node survives the filter when the filter is empty, its own name contains
\* the filter, or the name of one of its descendants does.
SurvivesFilter(n) ==
    \/ localSearchFilter = EmptyString
    \/ NameContains(n, localSearchFilter)
    \/ HasMatchingDescendant(n, localSearchFilter)

\* Path p is path q or the path of an ancestor of q.
IsPrefix(p, q) == Len(p) <= Len(q) /\ SubSeq(q, 1, Len(p)) = p

\* The paths of the nodes below the root whose ancestors below the root are
\* all expanded, and on whose path from the root every node survives.
ExpectedRowPaths ==
    LET below == Descendants(tree)
    IN  {n.path : n \in {d \in below :
            /\ AncestorPaths(d.path) \subseteq expandedPaths
            /\ \A a \in below : IsPrefix(a.path, d.path) => SurvivesFilter(a)}}

\* p comes before q in the depth-first pre-order of the tree with the given
\* directories: p is a proper ancestor of q, or the two paths part at a
\* directory where p goes through an earlier child than q.
PreOrderBefore(dirs, p, q) ==
    \/ p # q /\ IsPrefix(p, q)
    \/ \E parent \in dirs :
          \E i \in 1..Len(parent.children) : \E j \in 1..Len(parent.children) :
             /\ i < j
             /\ IsPrefix(parent.children[i].path, p)
             /\ IsPrefix(parent.children[j].path, q)

\* C17: the rows are the nodes below the root whose ancestors below the root
\* are all expanded and whose path survives the filter at every level, each
\* once, in depth-first pre-order, the children of the root at depth 1 and
\* every other row one deeper than its parent; the root is no row and its
\* own path need not be in the expansion set.
C17_RowsArePreOrder ==
    LET rows == VisibleRows
        expected == ExpectedRowPaths
        dirs == DirsOf(tree)
    IN  /\ {rows[i].path : i \in 1..Len(rows)} = expected
        /\ Len(rows) = Cardinality(expected)
        /\ \A i \in 1..Len(rows) :
              /\ rows[i].depth = Len(rows[i].path)
              /\ rows[i].path # tree.path
        /\ \A i \in 1..Len(rows) : \A j \in 1..Len(rows) :
              i < j => PreOrderBefore(dirs, rows[i].path, rows[j].path)

\* C17 witness: under a filter, with the root's path not in the expansion
\* set, a directory has been expanded: its children are rows of depth 2 and
\* some node of the tree is not a row.
C17_Witness ==
    /\ last.op = "toggleExpanded"
    /\ localSearchFilter # EmptyString
    /\ EmptyString \notin expandedPaths
    /\ \E row \in Range(VisibleRows) : row.depth = 2
    /\ \E n \in Descendants(tree) : n.path \notin RowPaths
    /\ Len(VisibleRows) >= 3

\* A child matches the filter when its own name contains it or, for a
\* directory, the name of some descendant does.
MatchesFilter(child, filter) ==
    \/ NameContains(child, filter)
    \/ child.node_type = "dir" /\ HasMatchingDescendant(child, filter)

\* C18: for every directory of the tree, visibleChildren is its children
\* under the empty filter and otherwise exactly its matching children, each
\* once and in the order of the children.
C18_VisibleChildrenSubsequence ==
    \A n \in DirsOf(tree) :
        LET vc == visibleChildren(n, localSearchFilter)
            ch == n.children
            matching == {c \in Range(ch) : MatchesFilter(c, localSearchFilter)}
        IN  /\ localSearchFilter = EmptyString => vc = ch
            /\ localSearchFilter # EmptyString =>
                  /\ Range(vc) = matching
                  /\ Len(vc) = Cardinality(matching)
                  /\ \A i \in 1..Len(vc) : \A j \in 1..Len(vc) :
                        i < j => \E a \in 1..Len(ch) : \E b \in 1..Len(ch) :
                                    a < b /\ ch[a] = vc[i] /\ ch[b] = vc[j]

\* C18 witness: under a filter the root keeps the second of its two children
\* alone, and a directory shown as a row is kept for the name of a descendant
\* only.
C18_Witness ==
    /\ last.op = "autoExpand"
    /\ localSearchFilter # EmptyString
    /\ Len(tree.children) = 2
    /\ visibleChildren(tree, localSearchFilter) = <<tree.children[2]>>
    /\ \E n \in DirsOf(tree) :
          /\ n.path \in RowPaths
          /\ ~NameContains(n, localSearchFilter)
          /\ Len(visibleChildren(n, localSearchFilter)) = 1

----------------------------------------------------------------------------
(* Claim about edits of the filter text, checked under Spec *)

\* The filter text has just been edited or cleared.
FilterChangeStep ==
    /\ last'.op \in {"handleSearchChange", "clearSearch"}
    /\ localSearchFilter' # localSearchFilter

\* C21: a change of the filter text never shrinks the expansion set.  Every
\* path expanded before is expanded after; for a non-empty new text the new
\* set is the old one united with getPathsToExpand(tree, text), and for the
\* empty text, typed or set by the clear button, the set is unchanged.
C21_FilterChangeKeepsExpansion ==
    [][FilterChangeStep
        => /\ \A p \in expandedPaths : p \in expandedPaths'
           /\ IF localSearchFilter' = EmptyString
              THEN expandedPaths' = expandedPaths
              ELSE expandedPaths' = expandedPaths
                      \cup getPathsToExpand(tree, localSearchFilter', EmptyString)
           /\ tree' = tree]_vars

\* C21 witness: the clear button has emptied the filter text and the root's
\* path, which only the auto-expand effect can add, is still expanded.
C21_Witness ==
    /\ last.op = "clearSearch"
    /\ localSearchFilter = EmptyString
    /\ EmptyString \in expandedPaths
    /\ Cardinality(expandedPaths) >= 2

====
